---- MODULE Spec2Model ----
(***************************************************************************)
(* A model of the Oracle driver's environment life cycle (Env: OpenSrv,    *)
(* OpenCon, Close, SetCfg, Cfg, NumSrv, NumCon) and of its parameter       *)
(* binders (bndBin, bndFloat32, bndFloat64, bndUint64: bind, close).       *)
(*                                                                         *)
(* Pointers are small naturals, NIL is the nil pointer.  Methods that run  *)
(* under env.mu from their first to their last statement are one action    *)
(* each; Env.OpenCon, which does not take env.mu, is a sequence of steps   *)
(* of the calling goroutine.  LockSpec takes Env.Close in two steps, the   *)
(* Lock of env.mu and the rest, to show what runs while env.mu is held.    *)
(***************************************************************************)
EXTENDS Naturals, Sequences, FiniteSets

\* ------------------------------------------------------------- bounds
NumEnv == 1
MaxSrv == 2
MaxCon == 1
NumProc == 2
MaxAddr == 2
MaxBnd == 2
NumStmt == 2

NIL == 0

Envs == 1..NumEnv
Srvs == 1..MaxSrv
Cons == 1..MaxCon
Procs == 1..NumProc
Bnds == 1..MaxBnd
Stmts == 1..NumStmt
\* addresses of StmtCfg objects and the values such an object may hold
Addrs == 1..MaxAddr
Vals == {0, 1}
\* database links and the character sets the metadata query may report
Links == {"orcl", "xe"}
Charsets == {"AL32UTF8", "WE8ISO8859P1"}
\* the connection strings callers pass to OpenCon
ConStrs == {" scott/tiger@orcl ", "/@xe", "scott/tiger@xe", "scott"}

VARIABLES
    env,          \* the Env objects: ocienv, ocierr, cfg.StmtCfg, openSrvs, openCons, elem
    openEnvs,     \* _drv.openEnvs
    envPool,      \* _drv.envPool: how many times each Env is in the pool
    srv,          \* the Srv objects
    con,          \* the Con objects
    heap,         \* the StmtCfg objects: address -> value
    conCharset,   \* the package-level charset cache
    conCharsetMu, \* its mutex: NIL or the goroutine holding it
    pc,           \* where each goroutine is in Env.OpenCon
    loc,          \* the locals of each goroutine's Env.OpenCon call
    queries,      \* the links for which the metadata query has been issued
    okQueries,    \* the links for which it has reported a character set
    ret,          \* what the last finished Env method returned
    closeRet,     \* what the last Env.Close that passed its closed check did
    envMu,        \* env.mu: whether a goroutine that has entered Close holds it
    bnd,          \* the binder objects
    bndPools,     \* the binder pools, by type tag
    bndRet        \* what the last binder operation did and returned

envVars == <<env, openEnvs, envPool, srv, con, heap, conCharset, conCharsetMu,
             pc, loc, queries, okQueries, ret, closeRet>>
bndVars == <<bnd, bndPools, bndRet>>
vars == <<envVars, bndVars, envMu>>

\* ------------------------------------------------------------- helpers
SeqToSet(s) == {s[i] : i \in 1..Len(s)}

RemoveElem(s, x) == SelectSeq(s, LAMBDA y : y # x)

Min(S) == CHOOSE x \in S : \A y \in S : x <= y

\* ------------------------------------------------------------- errors
\* an error value: its kind and, for the aggregate, its sub-errors
ErrNil == [k |-> "nil", subs |-> <<>>]
ErrClosed == [k |-> "closed", subs |-> <<>>]
ErrArg == [k |-> "arg", subs |-> <<>>]
ErrParse == [k |-> "parse", subs |-> <<>>]
ErrNative == [k |-> "native", subs |-> <<>>]
ErrSes == [k |-> "ses", subs |-> <<>>]
ErrChild == [k |-> "child", subs |-> <<>>]

\* newMultiErrL: nil for an empty list, else the aggregate of its errors
newMultiErrL(errs) ==
    IF Len(errs) = 0 THEN ErrNil ELSE [k |-> "multi", subs |-> errs]

\* the children of an Env, as the tagged values its collections hold
ConTag(c) == [t |-> "con", id |-> c]
SrvTag(s) == [t |-> "srv", id |-> s]

\* a sub-error of the aggregate: who raised it and how
SubErr(tag, how) == [who |-> tag, how |-> how]
PanicErr == [who |-> [t |-> "env", id |-> NIL], how |-> "panic"]

\* ------------------------------------------------------------- records
\* a method's return: the error, the object returned with it, whether the call
\* reached a native client call and, for OpenCon, whether the charset cache had
\* the link ("hit") or the query was issued ("miss")
NoRet == [op |-> "none", e |-> NIL, err |-> ErrNil, native |-> FALSE, obj |-> NIL,
          cs |-> "none"]

Ret(op, e, err, native, obj) ==
    [op |-> op, e |-> e, err |-> err, native |-> native, obj |-> obj, cs |-> "none"]

\* a Close: the children its collections held, the children whose Close it
\* called and how each ended, how the release of the environment handle ended
NoClose == [e |-> NIL, had |-> {}, calls |-> <<>>, outs |-> <<>>, panicked |-> FALSE,
            free |-> "none", err |-> ErrNil]

NewSrv == [st |-> "free", env |-> NIL, stmtCfg |-> NIL, defaulted |-> FALSE,
           dbIsUTF8 |-> FALSE]
NewCon == [st |-> "free", env |-> NIL, srv |-> NIL]
NoLoc == [e |-> NIL, dblink |-> "orcl", srv |-> NIL, con |-> NIL]

\* ------------------------------------------------------------- Env reads
\* checkClosed finding every Env open
checkClosedNever(e) == ErrNil

\* checkClosed with the test of ocienv left out
checkClosedNilOnly(e) ==
    IF e = NIL THEN ErrClosed ELSE ErrNil

\* checkClosed: an error if the Env is nil or its ocienv is nil
checkClosed(e) ==
    IF e = NIL \/ ~env[e].ocienv THEN ErrClosed ELSE ErrNil

NumSrv(e) == Len(env[e].openSrvs)

NumCon(e) == Len(env[e].openCons)

IsOpen(e) == env[e].ocienv

\* ------------------------------------------------------------- Env.OpenSrv
\* what the native calls of OpenSrv may do: all succeed, or one of them fails
SrvFails == {"none", "allocSrv", "attach", "allocSvcCtx", "setAttr"}

\* _drv.srvPool.Get(): a Srv that is not in use, one that Close has reset and
\* pooled or a new one (the two are alike, a pooled Srv being a reset one)
srvGet == Min({s \in Srvs : srv[s].st = "free"})

HasFreeSrv == \E s \in Srvs : srv[s].st = "free"

\* the address of a StmtCfg that only the SrvCfg holding it refers to: no Env
\* has it and no caller writes to it
OwnStmtCfg == MaxAddr + 1

\* &(*p): the address of the variable p points to, which is p itself
AddrOfDeref(p) == p

\* the error OpenSrv returns
OpenSrvErr(e, cfgNil, fail) ==
    IF checkClosed(e) # ErrNil THEN ErrClosed
    ELSE IF cfgNil THEN ErrArg
    ELSE IF fail # "none" THEN ErrNative
    ELSE ErrNil

\* whether OpenSrv reaches its first native call (allocOciHandle)
OpenSrvNative(e, cfgNil) == checkClosed(e) = ErrNil /\ ~cfgNil

\* the Srv that OpenSrv fills in: srv.cfg = *cfg, and the Env's StmtCfg
\* when cfg has none
OpenSrvSrv(e, stmtCfg) ==
    LET dflt == stmtCfg = NIL /\ env[e].stmtCfg # NIL
    IN  [st |-> "open", env |-> e,
         stmtCfg |-> IF dflt THEN AddrOfDeref(env[e].stmtCfg) ELSE stmtCfg,
         defaulted |-> dflt,
         dbIsUTF8 |-> srv[srvGet].dbIsUTF8]

\* OpenSrv taking the Srv out of the pool before its native calls
OpenSrvDoGetsFirst(e, cfgNil, stmtCfg, fail) ==
    IF OpenSrvErr(e, cfgNil, fail) = ErrNil
    THEN /\ srv' = [srv EXCEPT ![srvGet] = OpenSrvSrv(e, stmtCfg)]
         /\ env' = [env EXCEPT ![e].openSrvs = Append(@, srvGet)]
    ELSE IF OpenSrvNative(e, cfgNil)
    THEN /\ srv' = [srv EXCEPT ![srvGet] = OpenSrvSrv(e, stmtCfg)]
         /\ UNCHANGED env
    ELSE UNCHANGED <<env, srv>>

\* OpenSrv without the PushBack on env.openSrvs
OpenSrvDoNoPush(e, cfgNil, stmtCfg, fail) ==
    IF OpenSrvErr(e, cfgNil, fail) = ErrNil
    THEN /\ srv' = [srv EXCEPT ![srvGet] = OpenSrvSrv(e, stmtCfg)]
         /\ UNCHANGED env
    ELSE UNCHANGED <<env, srv>>

\* the body of OpenSrv: what it does to the Env and to the Srv objects
OpenSrvDo(e, cfgNil, stmtCfg, fail) ==
    IF OpenSrvErr(e, cfgNil, fail) = ErrNil
    THEN /\ srv' = [srv EXCEPT ![srvGet] = OpenSrvSrv(e, stmtCfg)]
         /\ env' = [env EXCEPT ![e].openSrvs = Append(@, srvGet)]
    ELSE UNCHANGED <<env, srv>>

OpenSrv(e, cfgNil, stmtCfg, fail) ==
    /\ ~envMu[e]
    /\ HasFreeSrv
    /\ OpenSrvDo(e, cfgNil, stmtCfg, fail)
    /\ ret' = Ret("OpenSrv", e, OpenSrvErr(e, cfgNil, fail), OpenSrvNative(e, cfgNil),
                  IF OpenSrvErr(e, cfgNil, fail) = ErrNil THEN srvGet ELSE NIL)
    /\ UNCHANGED <<openEnvs, envPool, con, heap, conCharset, conCharsetMu, pc, loc,
                   queries, okQueries, closeRet, bndVars, envMu>>

\* ------------------------------------------------------------- Env.SetCfg, Env.Cfg
\* SetCfg: env.cfg = *cfg, whatever the Env's state
SetCfgDo(e, stmtCfg) ==
    env' = [env EXCEPT ![e].stmtCfg = stmtCfg]

SetCfg(e, stmtCfg) ==
    /\ ~envMu[e]
    /\ SetCfgDo(e, stmtCfg)
    /\ ret' = Ret("SetCfg", e, ErrNil, FALSE, NIL)
    /\ UNCHANGED <<openEnvs, envPool, srv, con, heap, conCharset, conCharsetMu, pc, loc,
                   queries, okQueries, closeRet, bndVars, envMu>>

\* Cfg returns &env.cfg; the caller writes a field of the StmtCfg it points to
CfgMutate(e, v) ==
    /\ env[e].stmtCfg # NIL
    /\ heap[env[e].stmtCfg] # v
    /\ heap' = [heap EXCEPT ![env[e].stmtCfg] = v]
    /\ ret' = Ret("Cfg", e, ErrNil, FALSE, NIL)
    /\ UNCHANGED <<env, openEnvs, envPool, srv, con, conCharset, conCharsetMu, pc, loc,
                   queries, okQueries, closeRet, bndVars, envMu>>

\* ------------------------------------------------------------- Srv.Close, Con.Close
\* how the Close of a child may end
ChildOuts == {"ok", "err", "panic"}

\* a child's Close takes the child out of its Env's collection, resets it and
\* pools it, whether or not it returns an error; a Close that panics has not
\* got that far
ChildUnlinks(o) == o \in {"ok", "err"}

SrvClose(s, o) ==
    /\ srv[s].st = "open"
    /\ o \in {"ok", "err"}
    /\ srv' = [srv EXCEPT ![s] = NewSrv]
    /\ env' = [env EXCEPT ![srv[s].env].openSrvs = RemoveElem(@, s)]
    /\ UNCHANGED <<ret, openEnvs, envPool, con, heap, conCharset, conCharsetMu, pc, loc,
                   queries, okQueries, closeRet, bndVars, envMu>>

ConClose(c, o) ==
    /\ con[c].st = "open"
    /\ o \in {"ok", "err"}
    /\ con' = [con EXCEPT ![c] = NewCon]
    /\ env' = [env EXCEPT ![con[c].env].openCons = RemoveElem(@, c)]
    /\ UNCHANGED <<ret, openEnvs, envPool, srv, heap, conCharset, conCharsetMu, pc, loc,
                   queries, okQueries, closeRet, bndVars, envMu>>

\* ------------------------------------------------------------- Env.Close
\* what OCIHandleFree may return for the environment handle
FreeOuts == {"ok", "invalid", "error"}

\* freeOciHandle: an error for OCI_INVALID_HANDLE and for OCI_ERROR
freeOciHandle(r) == IF r \in {"invalid", "error"} THEN ErrNative ELSE ErrNil

\* e.Next() of the element at place i of a list: nil once the element has been
\* removed from its list (Remove clears its links), nil at the end of the list
ElemNext(list, i, removed) ==
    IF removed \/ i >= Len(list) THEN NIL ELSE i + 1

\* one `for e := l.Front(); e != nil; e = e.Next()` loop of Close, from place i
\* of the list of children: each child's Close is called and its error pushed
\* on errs; a panic ends the loop
RECURSIVE CloseLoop(_, _, _, _)
CloseLoop(list, i, out, acc) ==
    IF i = NIL THEN acc
    ELSE LET ch == list[i]
             o == out[ch]
             called == [acc EXCEPT !.calls = Append(@, ch), !.outs = Append(@, o)]
         IN  IF o = "panic" THEN [called EXCEPT !.panicked = TRUE]
             ELSE CloseLoop(list, ElemNext(list, i, ChildUnlinks(o)), out,
                            IF o = "err"
                            THEN [called EXCEPT !.errs = Append(@, SubErr(ch, "err"))]
                            ELSE called)

Front(list) == IF Len(list) = 0 THEN NIL ELSE 1

ConTags(e) == [i \in 1..Len(env[e].openCons) |-> ConTag(env[e].openCons[i])]
SrvTags(e) == [i \in 1..Len(env[e].openSrvs) |-> SrvTag(env[e].openSrvs[i])]
Children(e) == SeqToSet(ConTags(e)) \cup SeqToSet(SrvTags(e))

\* the body of Close after the closed check: the connections, then the servers,
\* then the environment handle
CloseBody(e, out, free) ==
    LET a0 == [calls |-> <<>>, outs |-> <<>>, errs |-> <<>>, panicked |-> FALSE]
        a1 == CloseLoop(ConTags(e), Front(ConTags(e)), out, a0)
        a2 == IF a1.panicked THEN a1
              ELSE CloseLoop(SrvTags(e), Front(SrvTags(e)), out, a1)
    IN  [calls |-> a2.calls, outs |-> a2.outs, errs |-> a2.errs,
         panicked |-> a2.panicked,
         free |-> IF a2.panicked THEN "none" ELSE free,
         err |-> IF a2.panicked THEN ErrNil ELSE freeOciHandle(free)]

\* the deferred function without the push of the recovered panic
CloseErrsNoPanic(b) == b.errs

\* the error list the deferred function ends with: the recovered panic is
\* pushed after the children's errors
CloseErrs(b) == IF b.panicked THEN Append(b.errs, PanicErr) ELSE b.errs

\* Close returning what its body returned whenever that is an error
CloseErrBodyFirst(b) ==
    IF b.err # ErrNil THEN b.err ELSE newMultiErrL(CloseErrs(b))

\* the error Close returns: the aggregate when it is not nil, else what the
\* body returned
CloseErr(b) ==
    IF newMultiErrL(CloseErrs(b)) # ErrNil THEN newMultiErrL(CloseErrs(b)) ELSE b.err

\* the deferred function without the reset of env.openCons
CloseDeferredKeepsCons(e) ==
    /\ openEnvs' = RemoveElem(openEnvs, e)
    /\ env' = [env EXCEPT ![e].ocienv = FALSE, ![e].ocierr = FALSE, ![e].elem = FALSE,
                          ![e].openSrvs = <<>>]
    /\ envPool' = [envPool EXCEPT ![e] = @ + 1]

\* the deferred function's bookkeeping on the Env and the driver
CloseDeferred(e) ==
    /\ openEnvs' = RemoveElem(openEnvs, e)
    /\ env' = [env EXCEPT ![e].ocienv = FALSE, ![e].ocierr = FALSE, ![e].elem = FALSE,
                          ![e].openSrvs = <<>>, ![e].openCons = <<>>]
    /\ envPool' = [envPool EXCEPT ![e] = @ + 1]

\* the children whose Close ran to its end are closed and pooled
ChildClosed(b, tag) ==
    \E i \in 1..Len(b.calls) : b.calls[i] = tag /\ b.outs[i] # "panic"

CloseDo(e, out, free) ==
    IF checkClosed(e) # ErrNil
    THEN /\ ret' = Ret("Close", e, ErrClosed, FALSE, NIL)
         /\ UNCHANGED <<env, openEnvs, envPool, srv, con, heap, conCharset, conCharsetMu,
                        pc, loc, queries, okQueries, closeRet, bndVars>>
    ELSE LET b == CloseBody(e, out, free)
         IN  /\ CloseDeferred(e)
             /\ srv' = [s \in Srvs |-> IF ChildClosed(b, SrvTag(s))
                                      THEN NewSrv ELSE srv[s]]
             /\ con' = [c \in Cons |-> IF ChildClosed(b, ConTag(c))
                                      THEN NewCon ELSE con[c]]
             /\ ret' = Ret("Close", e, CloseErr(b), TRUE, NIL)
             /\ closeRet' = [e |-> e, had |-> Children(e), calls |-> b.calls,
                             outs |-> b.outs, panicked |-> b.panicked, free |-> b.free,
                             err |-> CloseErr(b)]
             /\ UNCHANGED <<heap, conCharset, conCharsetMu, pc, loc, queries, okQueries,
                            bndVars>>

\* Close as one step: env.mu is taken, the method runs and env.mu is released
Close(e, out, free) ==
    /\ ~envMu[e]
    /\ CloseDo(e, out, free)
    /\ UNCHANGED envMu

\* Close in two steps of its goroutine: env.mu.Lock() ...
CloseLock(e) ==
    /\ ~envMu[e]
    /\ envMu' = [envMu EXCEPT ![e] = TRUE]
    /\ UNCHANGED <<envVars, bndVars>>

\* ... and the rest of the method, ending with the deferred env.mu.Unlock()
CloseUnlock(e, out, free) ==
    /\ envMu[e]
    /\ CloseDo(e, out, free)
    /\ envMu' = [envMu EXCEPT ![e] = FALSE]

\* ------------------------------------------------------------- Env.OpenCon
\* the connection string, parsed: TrimSpace, then "/@link", or else
\* Sscanf("%s / %s @ %s") of the string with its first "/" and "@" spaced out
ParseConStr(str) ==
    CASE str = " scott/tiger@orcl " -> [ok |-> TRUE, dblink |-> "orcl"]
      [] str = "/@xe" -> [ok |-> TRUE, dblink |-> "xe"]
      [] str = "scott/tiger@xe" -> [ok |-> TRUE, dblink |-> "xe"]
      [] OTHER -> [ok |-> FALSE, dblink |-> "orcl"]

\* _drv.conPool.Get(): a Con that is not in use, pooled or new
conGet == Min({c \in Cons : con[c].st = "free"})

HasFreeCon == \E c \in Cons : con[c].st = "free"

\* OpenCon up to its call of OpenSrv: the closed check, without env.mu, and
\* the parse of the connection string
OpenConStart(p, e, str) ==
    /\ pc[p] = "idle"
    /\ IF checkClosed(e) # ErrNil
       THEN /\ ret' = Ret("OpenCon", e, ErrClosed, FALSE, NIL)
            /\ UNCHANGED <<pc, loc>>
       ELSE IF ~ParseConStr(str).ok
       THEN /\ ret' = Ret("OpenCon", e, ErrParse, FALSE, NIL)
            /\ UNCHANGED <<pc, loc>>
       ELSE /\ pc' = [pc EXCEPT ![p] = "openSrv"]
            /\ loc' = [loc EXCEPT ![p] = [NoLoc EXCEPT !.e = e,
                                                       !.dblink = ParseConStr(str).dblink]]
            /\ UNCHANGED ret
    /\ UNCHANGED <<env, openEnvs, envPool, srv, con, heap, conCharset, conCharsetMu,
                   queries, okQueries, closeRet, bndVars, envMu>>

\* NewSrvCfg gives the SrvCfg a StmtCfg of its own, as NewEnvCfg does for the
\* EnvCfg
NewSrvCfgStmt == OwnStmtCfg

\* env.OpenSrv(srvCfg), under env.mu
OpenConSrv(p, fail) ==
    /\ pc[p] = "openSrv"
    /\ ~envMu[loc[p].e]
    /\ HasFreeSrv
    /\ OpenSrvDo(loc[p].e, FALSE, NewSrvCfgStmt, fail)
    /\ IF OpenSrvErr(loc[p].e, FALSE, fail) # ErrNil
       THEN /\ ret' = Ret("OpenCon", loc[p].e, OpenSrvErr(loc[p].e, FALSE, fail),
                          OpenSrvNative(loc[p].e, FALSE), NIL)
            /\ pc' = [pc EXCEPT ![p] = "idle"]
            /\ loc' = [loc EXCEPT ![p] = NoLoc]
       ELSE /\ pc' = [pc EXCEPT ![p] = "openSes"]
            /\ loc' = [loc EXCEPT ![p].srv = srvGet]
            /\ UNCHANGED ret
    /\ UNCHANGED <<openEnvs, envPool, con, heap, conCharset, conCharsetMu,
                   queries, okQueries, closeRet, bndVars, envMu>>

\* OpenCon closing the Srv it opened when OpenSes fails
OpenConSesClosesSrv(p, ok) ==
    /\ pc[p] = "openSes"
    /\ IF ok /\ srv[loc[p].srv].st = "open"
       THEN /\ pc' = [pc EXCEPT ![p] = "register"]
            /\ UNCHANGED <<loc, ret, env, srv>>
       ELSE /\ ret' = Ret("OpenCon", loc[p].e, ErrSes, TRUE, NIL)
            /\ pc' = [pc EXCEPT ![p] = "idle"]
            /\ loc' = [loc EXCEPT ![p] = NoLoc]
            /\ srv' = [srv EXCEPT ![loc[p].srv] = NewSrv]
            /\ env' = [env EXCEPT ![loc[p].e].openSrvs = RemoveElem(@, loc[p].srv)]
    /\ UNCHANGED <<openEnvs, envPool, con, heap, conCharset, conCharsetMu,
                   queries, okQueries, closeRet, bndVars, envMu>>

\* srv.OpenSes(sesCfg): on failure OpenCon returns, leaving the Srv as it is
OpenConSes(p, ok) ==
    /\ pc[p] = "openSes"
    /\ IF ok /\ srv[loc[p].srv].st = "open"
       THEN /\ pc' = [pc EXCEPT ![p] = "register"]
            /\ UNCHANGED <<loc, ret>>
       ELSE /\ ret' = Ret("OpenCon", loc[p].e, ErrSes, TRUE, NIL)
            /\ pc' = [pc EXCEPT ![p] = "idle"]
            /\ loc' = [loc EXCEPT ![p] = NoLoc]
    /\ UNCHANGED <<env, openEnvs, envPool, srv, con, heap, conCharset, conCharsetMu,
                   queries, okQueries, closeRet, bndVars, envMu>>

\* the Con is taken from the pool, filled in and pushed on env.openCons;
\* env.mu is not held
OpenConRegister(p) ==
    /\ pc[p] = "register"
    /\ HasFreeCon
    /\ con' = [con EXCEPT ![conGet] = [st |-> "open", env |-> loc[p].e, srv |-> loc[p].srv]]
    /\ env' = [env EXCEPT ![loc[p].e].openCons = Append(@, conGet)]
    /\ pc' = [pc EXCEPT ![p] = "charset"]
    /\ loc' = [loc EXCEPT ![p].con = conGet]
    /\ UNCHANGED <<openEnvs, envPool, srv, heap, conCharset, conCharsetMu,
                   queries, okQueries, ret, closeRet, bndVars, envMu>>

\* OpenCon without the insert into the cache
CharsetInsertNone(dblink, cs) ==
    UNCHANGED conCharset

\* the insert of a reported character set into the cache
CharsetInsert(dblink, cs) ==
    conCharset' = [conCharset EXCEPT ![dblink] = cs]

\* conCharsetMu.Lock() and the cache lookup: on a hit the flag is set and
\* OpenCon returns; on a miss the query is issued with the mutex held
OpenConCharset(p) ==
    /\ pc[p] = "charset"
    /\ conCharsetMu = NIL
    /\ IF conCharset[loc[p].dblink] # "none"
       THEN /\ srv' = [srv EXCEPT ![loc[p].srv].dbIsUTF8 =
                                      (conCharset[loc[p].dblink] = "AL32UTF8")]
            /\ ret' = [Ret("OpenCon", loc[p].e, ErrNil, TRUE, loc[p].con) EXCEPT !.cs = "hit"]
            /\ pc' = [pc EXCEPT ![p] = "idle"]
            /\ loc' = [loc EXCEPT ![p] = NoLoc]
            /\ UNCHANGED <<conCharsetMu, queries>>
       ELSE /\ conCharsetMu' = p
            /\ queries' = queries \cup {loc[p].dblink}
            /\ pc' = [pc EXCEPT ![p] = "query"]
            /\ UNCHANGED <<srv, ret, loc>>
    /\ UNCHANGED <<env, openEnvs, envPool, con, heap, conCharset, okQueries, closeRet,
                   bndVars, envMu>>

\* what ses.PrepAndQry and the read of its row may give
QryOuts == {"err", "norow", "nonstring"} \cup Charsets

\* the query's result: a string is cached and sets the flag, anything else is
\* dropped; the deferred Unlock runs as OpenCon returns
OpenConQuery(p, res) ==
    /\ pc[p] = "query"
    /\ conCharsetMu = p
    /\ IF res \in Charsets
       THEN /\ CharsetInsert(loc[p].dblink, res)
            /\ srv' = [srv EXCEPT ![loc[p].srv].dbIsUTF8 = (res = "AL32UTF8")]
            /\ okQueries' = okQueries \cup {loc[p].dblink}
       ELSE UNCHANGED <<conCharset, srv, okQueries>>
    /\ conCharsetMu' = NIL
    /\ ret' = [Ret("OpenCon", loc[p].e, ErrNil, TRUE, loc[p].con) EXCEPT !.cs = "miss"]
    /\ pc' = [pc EXCEPT ![p] = "idle"]
    /\ loc' = [loc EXCEPT ![p] = NoLoc]
    /\ UNCHANGED <<env, openEnvs, envPool, con, heap, queries, closeRet, bndVars, envMu>>

\* ------------------------------------------------------------- binders
\* the binder variants and the type tag of each one's pool
BndKinds == {"bndBin", "bndFloat32", "bndFloat64", "bndUint64"}
BndIdxs == {"bndIdxBin", "bndIdxFloat32", "bndIdxFloat64", "bndIdxUint64"}

IdxOf(kind) ==
    CASE kind = "bndBin" -> "bndIdxBin"
      [] kind = "bndFloat32" -> "bndIdxFloat32"
      [] kind = "bndFloat64" -> "bndIdxFloat64"
      [] kind = "bndUint64" -> "bndIdxUint64"
      [] OTHER -> "none"

KindOf(idx) == CHOOSE kind \in BndKinds : IdxOf(kind) = idx

\* a binder: its variant, its statement back-reference, whether its native bind
\* handle is set, where it is (not yet made, checked out, or in a pool), and
\* whether bind has ever been called on it
NoBnd == [kind |-> "none", stmt |-> NIL, ocibnd |-> FALSE, st |-> "none", binds |-> FALSE]

\* a binder call's return: the binder, the statement passed to bind, the error
\* and, for a checkout, what the pool held
NoBndRet == [op |-> "none", b |-> NIL, stmt |-> NIL, err |-> "nil", from |-> {}]

\* how a native call of bind may end, and how the hand-back to the pool may
NativeOuts == {"ok", "error"}
PutOuts == {"put", "panic"}

\* Stmt.getBnd: a binder of the tag's pool if it holds one, else a new binder
\* of the tag's variant
getBnd(idx, b) ==
    /\ IF bndPools[idx] # {}
       THEN b \in bndPools[idx]
       ELSE bnd[b].st = "none" /\ \A x \in Bnds : bnd[x].st = "none" => b <= x
    /\ bndPools' = [bndPools EXCEPT ![idx] = @ \ {b}]
    /\ bnd' = [bnd EXCEPT ![b] = IF bndPools[idx] # {}
                                 THEN [@ EXCEPT !.st = "out"]
                                 ELSE [NoBnd EXCEPT !.kind = KindOf(idx), !.st = "out"]]
    /\ bndRet' = [op |-> "get", b |-> b, stmt |-> NIL, err |-> "nil",
                  from |-> bndPools[idx]]
    /\ UNCHANGED <<envVars, envMu>>

\* Stmt.putBnd: the binder goes into the pool of the tag
putBnd(idx, b) ==
    bndPools' = [bndPools EXCEPT ![idx] = @ \cup {b}]

\* bind of a numeric variant recording the statement only when it succeeds
BndBindNumberDetaches(b, stmt, conv, bound) ==
    /\ bnd' = [bnd EXCEPT ![b].stmt = IF conv = "ok" /\ bound = "ok" THEN stmt ELSE @,
                          ![b].binds = TRUE,
                          ![b].ocibnd = IF conv = "ok" /\ bound = "ok" THEN TRUE ELSE @]
    /\ bndRet' = [op |-> "bind", b |-> b, stmt |-> stmt, from |-> {},
                  err |-> IF conv = "ok" /\ bound = "ok" THEN "nil" ELSE "native"]
    /\ UNCHANGED <<bndPools, envVars, envMu>>

\* bind of a numeric variant: the statement is recorded, the value converted
\* (OCINumberFromReal, OCINumberFromInt), then bound by position, which sets
\* the bind handle
BndBindNumber(b, stmt, conv, bound) ==
    /\ bnd' = [bnd EXCEPT ![b].stmt = stmt, ![b].binds = TRUE,
                          ![b].ocibnd = IF conv = "ok" /\ bound = "ok" THEN TRUE ELSE @]
    /\ bndRet' = [op |-> "bind", b |-> b, stmt |-> stmt, from |-> {},
                  err |-> IF conv = "ok" /\ bound = "ok" THEN "nil" ELSE "native"]
    /\ UNCHANGED <<bndPools, envVars, envMu>>

bndFloat32Bind(b, stmt, conv, bound) ==
    bnd[b].kind = "bndFloat32" /\ bnd[b].st = "out" /\ BndBindNumber(b, stmt, conv, bound)

bndFloat64Bind(b, stmt, conv, bound) ==
    bnd[b].kind = "bndFloat64" /\ bnd[b].st = "out" /\ BndBindNumber(b, stmt, conv, bound)

bndUint64Bind(b, stmt, conv, bound) ==
    bnd[b].kind = "bndUint64" /\ bnd[b].st = "out" /\ BndBindNumber(b, stmt, conv, bound)

\* bind of the byte-slice variant: the statement is recorded, then &value[0]
\* panics for an empty slice, and the panic leaves bind; else the slice is
\* bound by position
bndBinBind(b, stmt, len, bound) ==
    /\ bnd[b].kind = "bndBin" /\ bnd[b].st = "out"
    /\ bnd' = [bnd EXCEPT ![b].stmt = stmt, ![b].binds = TRUE,
                          ![b].ocibnd = IF len > 0 /\ bound = "ok" THEN TRUE ELSE @]
    /\ bndRet' = [op |-> "bind", b |-> b, stmt |-> stmt, from |-> {},
                  err |-> IF len = 0 THEN "panic"
                          ELSE IF bound = "ok" THEN "nil" ELSE "native"]
    /\ UNCHANGED <<bndPools, envVars, envMu>>

\* close handing the binder back before it clears the back-reference
BndClosePutFirst(b, idx, clearOcibnd, put) ==
    /\ bnd[b].st = "out"
    /\ bnd' = [bnd EXCEPT ![b].stmt = IF put = "put" THEN NIL ELSE @,
                          ![b].ocibnd = IF clearOcibnd /\ put = "put" THEN FALSE ELSE @,
                          ![b].st = IF put = "put" THEN "pool" ELSE @]
    /\ IF put = "put" THEN putBnd(idx, b) ELSE UNCHANGED bndPools
    /\ bndRet' = [op |-> "close", b |-> b, stmt |-> NIL, from |-> {},
                  err |-> IF put = "put" THEN "nil" ELSE "recovered"]
    /\ UNCHANGED <<envVars, envMu>>

\* close: the back-reference is cleared, for the variants that do so the bind
\* handle too, and the binder is handed to the pool of the tag; a panic of the
\* hand-back is recovered and returned as the error
BndClose(b, idx, clearOcibnd, put) ==
    /\ bnd[b].st = "out"
    /\ bnd' = [bnd EXCEPT ![b].stmt = NIL,
                          ![b].ocibnd = IF clearOcibnd THEN FALSE ELSE @,
                          ![b].st = IF put = "put" THEN "pool" ELSE @]
    /\ IF put = "put" THEN putBnd(idx, b) ELSE UNCHANGED bndPools
    /\ bndRet' = [op |-> "close", b |-> b, stmt |-> NIL, from |-> {},
                  err |-> IF put = "put" THEN "nil" ELSE "recovered"]
    /\ UNCHANGED <<envVars, envMu>>

bndBinClose(b, put) ==
    bnd[b].kind = "bndBin" /\ BndClose(b, "bndIdxBin", FALSE, put)

bndFloat32Close(b, put) ==
    bnd[b].kind = "bndFloat32" /\ BndClose(b, "bndIdxFloat32", TRUE, put)

\* close of the 64-bit float binder handing it to the 32-bit float pool
bndFloat64CloseWrongTag(b, put) ==
    bnd[b].kind = "bndFloat64" /\ BndClose(b, "bndIdxFloat32", TRUE, put)

bndFloat64Close(b, put) ==
    bnd[b].kind = "bndFloat64" /\ BndClose(b, "bndIdxFloat64", TRUE, put)

bndUint64Close(b, put) ==
    bnd[b].kind = "bndUint64" /\ BndClose(b, "bndIdxUint64", TRUE, put)

\* ------------------------------------------------------------- specification
Init ==
    /\ env = [e \in Envs |-> [ocienv |-> TRUE, ocierr |-> TRUE, stmtCfg |-> e,
                              openSrvs |-> <<>>, openCons |-> <<>>, elem |-> TRUE]]
    /\ openEnvs = [e \in Envs |-> e]
    /\ envPool = [e \in Envs |-> 0]
    /\ srv = [s \in Srvs |-> NewSrv]
    /\ con = [c \in Cons |-> NewCon]
    /\ heap = [a \in Addrs |-> 0]
    /\ conCharset = [l \in Links |-> "none"]
    /\ conCharsetMu = NIL
    /\ pc = [p \in Procs |-> "idle"]
    /\ loc = [p \in Procs |-> NoLoc]
    /\ queries = {}
    /\ okQueries = {}
    /\ ret = NoRet
    /\ closeRet = NoClose
    /\ bnd = [b \in Bnds |-> NoBnd]
    /\ bndPools = [idx \in BndIdxs |-> {}]
    /\ bndRet = NoBndRet
    /\ envMu = [e \in Envs |-> FALSE]

\* the goroutines that call OpenCon, and the strings they pass, in Spec
MainProcs == {1}
MainStrs == {" scott/tiger@orcl ", "scott"}

\* the environment's life cycle: servers and connections opened and closed
\* one by one, and the environment closed
Next ==
    \/ \E e \in Envs, cfgNil \in BOOLEAN, fail \in SrvFails : OpenSrv(e, cfgNil, NIL, fail)
    \/ \E s \in Srvs, o \in ChildOuts : SrvClose(s, o)
    \/ \E c \in Cons, o \in ChildOuts : ConClose(c, o)
    \/ \E e \in Envs, free \in FreeOuts :
           \E out \in [Children(e) -> ChildOuts] : Close(e, out, free)
    \/ \E p \in MainProcs, e \in Envs, str \in MainStrs : OpenConStart(p, e, str)
    \/ \E p \in MainProcs, fail \in SrvFails : OpenConSrv(p, fail)
    \/ \E p \in MainProcs, ok \in BOOLEAN : OpenConSes(p, ok)
    \/ \E p \in MainProcs : OpenConRegister(p)
    \/ \E p \in MainProcs : OpenConCharset(p)
    \/ \E p \in MainProcs, res \in QryOuts : OpenConQuery(p, res)

Spec == Init /\ [][Next]_vars

\* the life cycle with the configuration replaced as well; the servers are
\* opened with a StmtCfg of their own
ClosedNext ==
    \/ \E e \in Envs, cfgNil \in BOOLEAN, fail \in SrvFails :
           OpenSrv(e, cfgNil, OwnStmtCfg, fail)
    \/ \E e \in Envs, a \in {NIL, MaxAddr} : SetCfg(e, a)
    \/ \E s \in Srvs, o \in ChildOuts : SrvClose(s, o)
    \/ \E c \in Cons, o \in ChildOuts : ConClose(c, o)
    \/ \E e \in Envs, free \in FreeOuts :
           \E out \in [Children(e) -> ChildOuts] : Close(e, out, free)
    \/ \E p \in MainProcs, e \in Envs, str \in MainStrs : OpenConStart(p, e, str)
    \/ \E p \in MainProcs, fail \in SrvFails : OpenConSrv(p, fail)
    \/ \E p \in MainProcs, ok \in BOOLEAN : OpenConSes(p, ok)
    \/ \E p \in MainProcs : OpenConRegister(p)
    \/ \E p \in MainProcs : OpenConCharset(p)
    \/ \E p \in MainProcs, res \in QryOuts : OpenConQuery(p, res)

ClosedSpec == Init /\ [][ClosedNext]_vars

\* the statement configuration: servers opened with and without one of their
\* own, the environment's replaced and written through Cfg()
CfgNext ==
    \/ \E e \in Envs, a \in Addrs \cup {NIL} : OpenSrv(e, FALSE, a, "none")
    \/ \E e \in Envs, a \in Addrs \cup {NIL} : SetCfg(e, a)
    \/ \E e \in Envs, v \in Vals : CfgMutate(e, v)
    \/ \E s \in Srvs, o \in ChildOuts : SrvClose(s, o)
    \/ \E e \in Envs, free \in FreeOuts :
           \E out \in [Children(e) -> ChildOuts] : Close(e, out, free)

CfgSpec == Init /\ [][CfgNext]_vars

\* the charset cache: connections opened by several goroutines to several links
CharsetNext ==
    \/ \E p \in Procs, e \in Envs, str \in ConStrs : OpenConStart(p, e, str)
    \/ \E p \in Procs, fail \in SrvFails : OpenConSrv(p, fail)
    \/ \E p \in Procs, ok \in BOOLEAN : OpenConSes(p, ok)
    \/ \E p \in Procs : OpenConRegister(p)
    \/ \E p \in Procs : OpenConCharset(p)
    \/ \E p \in Procs, res \in QryOuts : OpenConQuery(p, res)
    \/ \E s \in Srvs, o \in ChildOuts : SrvClose(s, o)
    \/ \E c \in Cons, o \in ChildOuts : ConClose(c, o)

CharsetSpec == Init /\ [][CharsetNext]_vars

\* the binders: checked out of their pools, bound to statements and closed
BndNext ==
    \/ \E idx \in BndIdxs, b \in Bnds : getBnd(idx, b)
    \/ \E b \in Bnds, stmt \in Stmts, len \in 0..1, bound \in NativeOuts :
           bndBinBind(b, stmt, len, bound)
    \/ \E b \in Bnds, stmt \in Stmts, conv \in NativeOuts, bound \in NativeOuts :
           bndFloat32Bind(b, stmt, conv, bound)
    \/ \E b \in Bnds, stmt \in Stmts, conv \in NativeOuts, bound \in NativeOuts :
           bndFloat64Bind(b, stmt, conv, bound)
    \/ \E b \in Bnds, stmt \in Stmts, conv \in NativeOuts, bound \in NativeOuts :
           bndUint64Bind(b, stmt, conv, bound)
    \/ \E b \in Bnds, put \in PutOuts : bndBinClose(b, put)
    \/ \E b \in Bnds, put \in PutOuts : bndFloat32Close(b, put)
    \/ \E b \in Bnds, put \in PutOuts : bndFloat64Close(b, put)
    \/ \E b \in Bnds, put \in PutOuts : bndUint64Close(b, put)

BndSpec == Init /\ [][BndNext]_vars

\* Close as two steps of its goroutine, with servers and connections being
\* opened by other goroutines meanwhile
LockNext ==
    \/ \E e \in Envs : CloseLock(e)
    \/ \E e \in Envs, free \in FreeOuts :
           \E out \in [Children(e) -> ChildOuts] : CloseUnlock(e, out, free)
    \/ \E e \in Envs, fail \in SrvFails : OpenSrv(e, FALSE, NIL, fail)
    \/ \E p \in MainProcs, e \in Envs, str \in MainStrs : OpenConStart(p, e, str)
    \/ \E p \in MainProcs, fail \in SrvFails : OpenConSrv(p, fail)
    \/ \E p \in MainProcs, ok \in BOOLEAN : OpenConSes(p, ok)
    \/ \E p \in MainProcs : OpenConRegister(p)
    \/ \E p \in MainProcs : OpenConCharset(p)
    \/ \E p \in MainProcs, res \in QryOuts : OpenConQuery(p, res)

LockSpec == Init /\ [][LockNext]_vars

\* ------------------------------------------------------------- claims
\* the child Close calls of the last Close that returned an error
FailedCalls(cr) == {i \in 1..Len(cr.outs) : cr.outs[i] = "err"}

\* C1: a Close that passes its closed check and meets no panic returns, when J
\* >= 1 of the child Close calls it made returned an error, the aggregate of
\* exactly those J errors; when none did and the release of the environment
\* handle succeeded, it returns nil.
C1_CloseAggregatesChildErrors ==
    (closeRet.e # NIL /\ ~closeRet.panicked) =>
        LET J == Cardinality(FailedCalls(closeRet))
        IN  /\ J >= 1 =>
                /\ closeRet.err.k = "multi"
                /\ Len(closeRet.err.subs) = J
                /\ {closeRet.err.subs[i].who : i \in 1..J} =
                       {closeRet.calls[i] : i \in FailedCalls(closeRet)}
            /\ (J = 0 /\ closeRet.free = "ok") => closeRet.err = ErrNil

\* a connection's Close and a server's Close both failed, no panic
C1_Witness ==
    /\ closeRet.e # NIL /\ ~closeRet.panicked
    /\ Cardinality(FailedCalls(closeRet)) = 2

\* C2: every Close that passes its closed check ends with the Env out of
\* openEnvs, ocienv and ocierr nil, both collections empty and the Env put
\* into the pool, whatever its children and the native release did.
C2_CloseAlwaysTearsDown ==
    [][\A e \in Envs :
          (closeRet' # closeRet /\ closeRet'.e = e) =>
              /\ e \notin SeqToSet(openEnvs')
              /\ ~env'[e].ocienv /\ ~env'[e].ocierr /\ ~env'[e].elem
              /\ Len(env'[e].openSrvs) = 0
              /\ Len(env'[e].openCons) = 0
              /\ envPool'[e] = envPool[e] + 1]_vars

\* a Close of an Env with a connection and a server whose child panicked
C2_Witness ==
    /\ closeRet.e # NIL /\ closeRet.panicked
    /\ \E x \in closeRet.had : x.t = "con"
    /\ envPool[closeRet.e] = 1

\* C3: a panic of one child's Close does not keep Close from calling the Close
\* of every other child the collections held.
C3_PanicSparesSiblings ==
    (closeRet.e # NIL /\ closeRet.panicked) =>
        SeqToSet(closeRet.calls) = closeRet.had

\* a call of a mutating method on a closed Env: OpenSrv, Close and SetCfg are
\* one step; an OpenCon that starts on a closed Env ends in its first step
CallOnClosed(e, ops) ==
    /\ ~IsOpen(e)
    /\ ret' # ret /\ ret'.e = e /\ ret'.op \in ops
    /\ ret'.op = "OpenCon" => \A p \in Procs : pc[p] = "idle"

Rejected ==
    /\ ret'.err = ErrClosed /\ ~ret'.native
    /\ UNCHANGED <<env, openEnvs, envPool, srv, con, heap, conCharset, closeRet>>

OpenSrvsOf(e) == {s \in Srvs : srv[s].st = "open" /\ srv[s].env = e}

\* C5: on an open Env NumSrv() is the number of servers opened on it and not
\* yet closed: N after N OpenSrv calls, one less after a server's Close.
C5_NumSrvCountsOpenServers ==
    \A e \in Envs : IsOpen(e) => NumSrv(e) = Cardinality(OpenSrvsOf(e))

\* two servers were opened and the first one closed: the first Srv object is
\* free again while the second is open
C5_Witness ==
    \E e \in Envs :
        /\ IsOpen(e) /\ NumSrv(e) = 1
        /\ srv[1].st = "free" /\ srv[2].st = "open" /\ srv[2].env = e

\* C6: the statement configuration of an open server that took the Env's
\* default stays as it is when the Env's default is replaced (SetCfg) or
\* written through the object Cfg() returns.
C6_OpenSrvCopiesStmtCfg ==
    [][\A s \in Srvs :
          (srv[s].st = "open" /\ srv[s].defaulted /\ srv'[s] = srv[s]) =>
              heap'[srv[s].stmtCfg] = heap[srv[s].stmtCfg]]_vars

\* an OpenCon issues the metadata query: from the cache lookup to the query
IssuesQuery(p) == pc[p] = "charset" /\ pc'[p] = "query"

\* an OpenCon finds the link in the cache: from the cache lookup to the return
HitsCache(p) == pc[p] = "charset" /\ pc'[p] = "idle"

\* C7 (as stated): the metadata query is issued at most once per link,
\* whatever its outcome.
C7_QueryAtMostOnce ==
    [][\A p \in Procs : IssuesQuery(p) => loc[p].dblink \notin queries]_vars

\* C7 (amended): the metadata query is never issued for a link for which it
\* has reported a character set, and a connection that finds its link in the
\* cache has its server's UTF-8 flag set from the cached value.
C7_NoQueryAfterAnswer ==
    [][\A p \in Procs :
          /\ IssuesQuery(p) => loc[p].dblink \notin okQueries
          /\ HitsCache(p) =>
                 /\ loc[p].dblink \in okQueries
                 /\ srv'[loc[p].srv].dbIsUTF8 =
                        (conCharset[loc[p].dblink] = "AL32UTF8")]_vars

\* an OpenCon has returned after finding its link in the cache
C7_Witness ==
    /\ ret.op = "OpenCon" /\ ret.cs = "hit"
    /\ okQueries # {}

\* C8: a binder in a pool has no statement back-reference and is of the
\* variant of the pool's type tag; a checkout from a pool that holds binders
\* yields one of them, with no statement back-reference.
C8_PooledBinderIsDetached ==
    /\ \A idx \in BndIdxs : \A b \in bndPools[idx] :
           bnd[b].stmt = NIL /\ IdxOf(bnd[b].kind) = idx
    /\ (bndRet.op = "get" /\ bndRet.from # {}) =>
           bndRet.b \in bndRet.from /\ bnd[bndRet.b].stmt = NIL

\* a 64-bit float binder that has been bound and closed is checked out again,
\* the only one its pool held
C8_Witness ==
    /\ bndRet.op = "get" /\ bndRet.from = {bndRet.b}
    /\ bnd[bndRet.b].kind = "bndFloat64" /\ bnd[bndRet.b].binds

\* whether an error reports the failure of the native release
ReportsFree(err) ==
    \/ err = ErrNative
    \/ err.k = "multi" /\ \E i \in 1..Len(err.subs) : err.subs[i].how = "free"

\* C9: when the release of the environment handle fails, the error Close
\* returns reports it, with and without failed child closes.
C9_FreeFailureReported ==
    (closeRet.e # NIL /\ closeRet.free \in {"invalid", "error"}) =>
        ReportsFree(closeRet.err)

\* C10: a panic during Close is recovered: Close returns the aggregate of the
\* errors of the children closed before the panic followed by the recovered
\* panic.
C10_PanicFoldedIntoAggregate ==
    (closeRet.e # NIL /\ closeRet.panicked) =>
        LET J == Cardinality(FailedCalls(closeRet))
        IN  /\ closeRet.err.k = "multi"
            /\ Len(closeRet.err.subs) = J + 1
            /\ closeRet.err.subs[J + 1] = PanicErr
            /\ {closeRet.err.subs[i].who : i \in 1..J} =
                   {closeRet.calls[i] : i \in FailedCalls(closeRet)}
            /\ \A i \in 1..J : closeRet.err.subs[i].how = "err"

\* a child's Close panicked after another child's Close had returned an error
C10_Witness ==
    /\ closeRet.e # NIL /\ closeRet.panicked
    /\ Cardinality(FailedCalls(closeRet)) = 1

\* an OpenCon has issued the metadata query and waits for its result
InQuery(p) == pc[p] = "query"

\* C11: the charset-cache lock is not held while the metadata query of some
\* OpenCon is in flight, so that OpenCon keeps no other from the cache.
C11_QueryOutsideCacheLock ==
    \A p \in Procs : InQuery(p) => conCharsetMu = NIL

\* an OpenCon pushes its Con on env.openCons
RegistersCon(p) == pc[p] = "register" /\ pc'[p] = "charset"

\* C12: the collections are touched only under env.mu, so OpenCon never
\* pushes onto env.openCons while another goroutine, inside Close, holds env.mu.
C12_CollectionsUnderEnvLock ==
    [][\A p \in Procs : RegistersCon(p) => ~envMu[loc[p].e]]_vars

\* C13: a Close that meets no panic calls the Close of every connection and
\* then of every server its collections held, also when each child's Close
\* takes the child out of the collection being iterated, and releases the
\* environment handle after them.
C13_CloseReachesEveryChild ==
    (closeRet.e # NIL /\ ~closeRet.panicked) =>
        /\ SeqToSet(closeRet.calls) = closeRet.had
        /\ closeRet.free # "none"

\* a bind of binder b has returned the error of a native call
BindFailed(b) == bndRet'.op = "bind" /\ bndRet'.b = b /\ bndRet'.err = "native"

\* binder b goes into a pool
Pooled(b) == \E idx \in BndIdxs : b \notin bndPools[idx] /\ b \in bndPools'[idx]

\* C14: a bind that fails in a native call leaves the binder checked out, in
\* no pool, with its back-reference set to the statement passed to bind; a
\* binder goes into a pool only by its close.
C14_FailedBindStaysBound ==
    [][\A b \in Bnds :
          /\ BindFailed(b) =>
                 /\ bndRet'.stmt # NIL /\ bnd'[b].stmt = bndRet'.stmt
                 /\ bnd'[b].st = "out"
                 /\ \A idx \in BndIdxs : b \notin bndPools'[idx]
          /\ Pooled(b) => bndRet'.op = "close" /\ bndRet'.b = b]_vars

\* the bind of an unsigned 64-bit binder has failed: the binder is checked out,
\* refers to the statement passed and has no bind handle
C14_Witness ==
    /\ bndRet.op = "bind" /\ bndRet.err = "native"
    /\ bnd[bndRet.b].kind = "bndUint64"
    /\ bnd[bndRet.b].stmt = NumStmt /\ bnd[bndRet.b].st = "out"
    /\ ~bnd[bndRet.b].ocibnd

\* the pool a binder belongs in
OwnPool(b) == bndPools[IdxOf(bnd[b].kind)]

\* C15: a close has returned: its error is nil when the binder went into its
\* pool and the recovered panic when the hand-back panicked, never a panic
\* of its own, and the binder's back-reference is cleared either way.
C15_CloseRecoversPutPanic ==
    bndRet.op = "close" =>
        /\ bnd[bndRet.b].stmt = NIL
        /\ bndRet.err \in {"nil", "recovered"}
        /\ bndRet.err = "nil" <=> bndRet.b \in OwnPool(bndRet.b)
        /\ bndRet.err = "recovered" <=> bnd[bndRet.b].st = "out"

\* the close of a 32-bit float binder that had been bound returned the
\* recovered panic of the hand-back
C15_Witness ==
    /\ bndRet.op = "close" /\ bndRet.err = "recovered"
    /\ bnd[bndRet.b].kind = "bndFloat32" /\ bnd[bndRet.b].binds

\* C16: a binder in a pool has no native bind handle, whatever its variant.
C16_PooledBinderHasNoHandle ==
    \A idx \in BndIdxs : \A b \in bndPools[idx] : ~bnd[b].ocibnd

\* C17: the open-connection collection of a closed Env is empty, however
\* OpenCon and Close interleave.
C17_ClosedEnvHasNoCon ==
    \A e \in Envs : ~IsOpen(e) => NumCon(e) = 0

\* the OpenSrv of an OpenCon succeeds; its OpenSes fails and OpenCon returns
SrvOpenedByCon(p) == pc[p] = "openSrv" /\ pc'[p] = "openSes"
SesFails(p) == pc[p] = "openSes" /\ pc'[p] = "idle"

\* a server leaves the open-server collection of an Env
SrvLeaves(e, s) ==
    s \in SeqToSet(env[e].openSrvs) /\ s \notin SeqToSet(env'[e].openSrvs)

\* C18: the OpenSrv of an OpenCon registers one more server; when its OpenSes
\* then fails OpenCon returns no connection and an error and changes neither
\* collection and no server, and a registered server leaves the collection
\* only when it or the Env is closed.
C18_FailedSesLeavesSrvOpen ==
    [][/\ \A p \in Procs :
            /\ SrvOpenedByCon(p) =>
                   /\ NumSrv(loc[p].e)' = NumSrv(loc[p].e) + 1
                   /\ loc'[p].srv \in SeqToSet(env'[loc[p].e].openSrvs)
            /\ SesFails(p) =>
                   /\ ret'.op = "OpenCon" /\ ret'.obj = NIL /\ ret'.err = ErrSes
                   /\ UNCHANGED <<env, srv, con>>
       /\ \A e \in Envs, s \in Srvs :
            SrvLeaves(e, s) => srv'[s] = NewSrv \/ ~IsOpen(e)']_vars

\* an OpenCon on an Env with no server has failed in OpenSes: the Env has one
\* open server and no connection
C18_Witness ==
    /\ ret.op = "OpenCon" /\ ret.err = ErrSes
    /\ IsOpen(ret.e) /\ NumSrv(ret.e) = 1 /\ NumCon(ret.e) = 0
    /\ \A p \in Procs : pc[p] = "idle"
    /\ closeRet.e = NIL

\* an OpenSrv call returns an error; the OpenSrv of an OpenCon does
OpenSrvFailed == ret' # ret /\ ret'.op = "OpenSrv" /\ ret'.err # ErrNil
SrvFailsInCon(p) == pc[p] = "openSrv" /\ pc'[p] = "idle"

\* C19: an OpenSrv that fails, whatever the reason, returns no server, leaves
\* the open-server collection as it is and takes no Srv out of the pool.
C19_FailedOpenSrvChangesNothing ==
    [][/\ OpenSrvFailed => ret'.obj = NIL /\ UNCHANGED <<env, srv>>
       /\ \A p \in Procs :
            SrvFailsInCon(p) => ret'.obj = NIL /\ UNCHANGED <<env, srv>>]_vars

\* an OpenSrv on an open Env with one open server has failed in a native call
C19_Witness ==
    /\ ret.op = "OpenSrv" /\ ret.err = ErrNative /\ ret.obj = NIL
    /\ IsOpen(ret.e) /\ NumSrv(ret.e) = 1
    /\ Cardinality({s \in Srvs : srv[s].st = "free"}) = MaxSrv - 1

\* a Close call on Env e returns
CloseCall(e) == ret' # ret /\ ret'.op = "Close" /\ ret'.e = e

\* C20: a Close on an open Env takes it out of openEnvs and puts it into the
\* pool once; a Close on a closed Env returns the closed error and touches
\* neither the pool, openEnvs, the collections nor the handles; the pool
\* changes in no other step and never holds an Env twice.
C20_PooledOncePerOpenPeriod ==
    [][\A e \in Envs :
          /\ (CloseCall(e) /\ IsOpen(e)) =>
                 /\ envPool'[e] = envPool[e] + 1
                 /\ e \in SeqToSet(openEnvs) /\ e \notin SeqToSet(openEnvs')
          /\ (CloseCall(e) /\ ~IsOpen(e)) =>
                 /\ ret'.err = ErrClosed
                 /\ UNCHANGED <<envPool, openEnvs, env, srv, con, closeRet>>
          /\ envPool'[e] # envPool[e] => IsOpen(e) /\ ~IsOpen(e)'
          /\ envPool'[e] <= 1]_vars

\* a Close on an Env that an earlier Close has pooled has returned
C20_Witness ==
    /\ ret.op = "Close" /\ ret.err = ErrClosed
    /\ closeRet.e = ret.e /\ envPool[ret.e] = 1
    /\ ret.e \notin SeqToSet(openEnvs)

====
